---- MODULE Spec2Model ----
(***************************************************************************)
(* Route configuration utilities of the router                             *)
(* (packages/router/src/utils/config.ts): validateConfig,                  *)
(* standardizeConfig, getOutlet, sortByMatchingOutlets and                 *)
(* getClosestRouteInjector.                                                *)
(*                                                                         *)
(* An optional property of a JavaScript object is a sequence of length at  *)
(* most one: <<>> is `undefined`, <<v>> is the value v.  A path is a       *)
(* sequence of one-character strings, so that charAt(0) and the template   *)
(* strings of getFullPath are computed and not assumed.                    *)
(***************************************************************************)
EXTENDS Integers, Sequences, FiniteSets, TLC

VARIABLES
    ngDevMode,     \* the build flag read by validateNode
    config,        \* Routes handed to validateConfig
    validation,    \* outcome of validateConfig(config), <<>> before the call
    heap,          \* Route objects by address, for standardizeConfig
    roots,         \* addresses of the Route objects handed to standardizeConfig
    outs,          \* addresses returned by standardizeConfig, one per root so far
    again,         \* outcome of standardizeConfig applied to one of outs
    routes,        \* Routes handed to sortByMatchingOutlets
    outletName,    \* outlet name handed to sortByMatchingOutlets
    sortedConfig,  \* Routes returned by sortByMatchingOutlets
    snapshot,      \* ActivatedRouteSnapshot chain: snapshot, parent, grandparent...
    injector       \* outcome of getClosestRouteInjector(snapshot)

vars == <<ngDevMode, config, validation, heap, roots, outs, again,
          routes, outletName, sortedConfig, snapshot, injector>>

validateVars == <<ngDevMode, config, validation>>
standardizeVars == <<heap, roots, outs, again>>
outletVars == <<routes, outletName, sortedConfig>>
injectorVars == <<snapshot, injector>>

(***************************************************************************)
(* Bounds of the model.                                                    *)
(***************************************************************************)
MaxNodes == 3      \* Route objects in a configuration tree
MaxRoutes == 4     \* length of the list given to sortByMatchingOutlets
MaxChain == 3      \* snapshots above the one given to getClosestRouteInjector

(***************************************************************************)
(* JavaScript values.                                                      *)
(***************************************************************************)
None == <<>>
Some(v) == <<v>>
IsSet(o) == Len(o) = 1
Val(o) == o[1]

\* Truthiness of an optional object, function or array: set means truthy.
Truthy(o) == IsSet(o)
\* Truthiness of an optional string: set and not the empty string.
TruthyStr(o) == IsSet(o) /\ Val(o) # ""
\* Truthiness of an optional path (a sequence of characters).
TruthyPath(o) == IsSet(o) /\ Len(Val(o)) > 0

PRIMARY_OUTLET == "primary"
EmptyOutletComponent == "EmptyOutletComponent"

Slash == <<"/">>

\* A Route object with no property set.
EmptyRoute ==
    [path |-> None, matcher |-> None, outlet |-> None, component |-> None,
     redirectTo |-> None, canActivate |-> None, children |-> None,
     loadChildren |-> None, pathMatch |-> None]

\* Elements of a Routes array that are not Route objects.
UndefinedRoute == [undefined |-> TRUE]
ArrayRoute == [array |-> TRUE]
IsUndefined(route) == "undefined" \in DOMAIN route
IsArray(route) == "array" \in DOMAIN route
IsRoute(route) == "path" \in DOMAIN route

\* Property reads; an array element of the list has none of the properties.
PathOf(route) == IF IsRoute(route) THEN route.path ELSE None
ChildrenOf(route) == IF IsRoute(route) THEN route.children ELSE None

(***************************************************************************)
(* validateConfig / validateNode / getFullPath.                            *)
(***************************************************************************)

\* getFullPath(parentPath, currentRoute): the four template strings.
getFullPath(parentPath, currentRoute) ==
    IF IsUndefined(currentRoute) THEN parentPath
    ELSE IF Len(parentPath) = 0 /\ ~TruthyPath(PathOf(currentRoute)) THEN <<>>
    ELSE IF Len(parentPath) > 0 /\ ~TruthyPath(PathOf(currentRoute))
        THEN parentPath \o Slash
    ELSE IF Len(parentPath) = 0 /\ TruthyPath(PathOf(currentRoute))
        THEN Val(PathOf(currentRoute))
    ELSE parentPath \o Slash \o Val(PathOf(currentRoute))

\* The conditions of validateNode's throw statements, in source order.
NamedOutletWithoutContent(route) ==
    /\ ~Truthy(route.component) /\ ~Truthy(route.children)
    /\ ~Truthy(route.loadChildren)
    /\ TruthyStr(route.outlet) /\ Val(route.outlet) # PRIMARY_OUTLET

RedirectWithChildren(route) ==
    TruthyStr(route.redirectTo) /\ Truthy(route.children)

RedirectWithLoadChildren(route) ==
    TruthyStr(route.redirectTo) /\ Truthy(route.loadChildren)

ChildrenWithLoadChildren(route) ==
    Truthy(route.children) /\ Truthy(route.loadChildren)

RedirectWithComponent(route) ==
    TruthyStr(route.redirectTo) /\ Truthy(route.component)

RedirectWithCanActivate(route) ==
    TruthyStr(route.redirectTo) /\ Truthy(route.canActivate)

PathWithMatcher(route) ==
    TruthyPath(route.path) /\ Truthy(route.matcher)

NothingProvided(route) ==
    /\ ~IsSet(route.redirectTo) /\ ~Truthy(route.component)
    /\ ~Truthy(route.children) /\ ~Truthy(route.loadChildren)

NoPathNoMatcher(route) ==
    ~IsSet(route.path) /\ ~IsSet(route.matcher)

PathStartsWithSlash(route) ==
    /\ IsSet(route.path) /\ Len(Val(route.path)) > 0
    /\ Val(route.path)[1] = "/"

\* redirectTo is tested for truthiness, as the earlier rules test it.
EmptyPathRedirectWithoutPathMatch_Truthy(route) ==
    /\ IsSet(route.path) /\ Val(route.path) = <<>>
    /\ TruthyStr(route.redirectTo) /\ ~IsSet(route.pathMatch)

EmptyPathRedirectWithoutPathMatch(route) ==
    /\ IsSet(route.path) /\ Val(route.path) = <<>>
    /\ IsSet(route.redirectTo) /\ ~IsSet(route.pathMatch)

\* The dev-mode block of validateNode: the message of the first throw
\* statement whose condition holds, "ok" when none does.
NodeError(route) ==
    IF IsUndefined(route) THEN "Encountered undefined route"
    ELSE IF IsArray(route) THEN "Array cannot be specified"
    ELSE IF NamedOutletWithoutContent(route)
        THEN "a componentless route without children or loadChildren cannot have a named outlet set"
    ELSE IF RedirectWithChildren(route)
        THEN "redirectTo and children cannot be used together"
    ELSE IF RedirectWithLoadChildren(route)
        THEN "redirectTo and loadChildren cannot be used together"
    ELSE IF ChildrenWithLoadChildren(route)
        THEN "children and loadChildren cannot be used together"
    ELSE IF RedirectWithComponent(route)
        THEN "redirectTo and component cannot be used together"
    ELSE IF RedirectWithCanActivate(route)
        THEN "redirectTo and canActivate cannot be used together"
    ELSE IF PathWithMatcher(route)
        THEN "path and matcher cannot be used together"
    ELSE IF NothingProvided(route)
        THEN "One of the following must be provided: component, redirectTo, children or loadChildren"
    ELSE IF NoPathNoMatcher(route)
        THEN "routes must have either a path or a matcher specified"
    ELSE IF PathStartsWithSlash(route)
        THEN "path cannot start with a slash"
    ELSE IF EmptyPathRedirectWithoutPathMatch(route)
        THEN "please provide 'pathMatch'"
    ELSE "ok"

\* A run of the validator: how it ended, the route the error names, and the
\* elements visited so far; an element is named by its index path.
Running(visited) ==
    [status |-> "ok", fullPath |-> <<>>, message |-> "ok", visited |-> visited]

Thrown(status, fullPath, message, visited) ==
    [status |-> status, fullPath |-> fullPath, message |-> message,
     visited |-> visited]

RECURSIVE validateLoop(_, _, _, _, _, _)
RECURSIVE validateNode(_, _, _, _, _)

\* The children are validated before the route itself.
validateNode_ChildrenFirst(dev, route, fullPath, pos, visited) ==
    LET message == IF dev THEN NodeError(route) ELSE "ok"
        below == IF Truthy(ChildrenOf(route))
                    THEN validateLoop(dev, Val(ChildrenOf(route)), fullPath,
                                      pos, 1, visited)
                    ELSE Running(visited)
        seen == Append(below.visited, pos)
    IN  IF below.status # "ok" THEN below
        ELSE IF message # "ok" THEN Thrown("error", fullPath, message, seen)
        ELSE IF IsUndefined(route)
            THEN Thrown("TypeError", fullPath, "TypeError", seen)
        ELSE Running(seen)

\* validateNode(route, fullPath): the dev-mode checks, then the children.
\* Reading route.children of an undefined element is a TypeError.
validateNode(dev, route, fullPath, pos, visited) ==
    LET seen == Append(visited, pos)
        message == IF dev THEN NodeError(route) ELSE "ok"
    IN  IF message # "ok" THEN Thrown("error", fullPath, message, seen)
        ELSE IF IsUndefined(route)
            THEN Thrown("TypeError", fullPath, "TypeError", seen)
        ELSE IF Truthy(ChildrenOf(route))
            THEN validateLoop(dev, Val(ChildrenOf(route)), fullPath, pos, 1, seen)
        ELSE Running(seen)

\* The for loop of validateConfig from index i on; a throw ends it.
validateLoop(dev, routeList, parentPath, pos, i, visited) ==
    IF i > Len(routeList) THEN Running(visited)
    ELSE LET route == routeList[i]
             fullPath == getFullPath(parentPath, route)
             r == validateNode(dev, route, fullPath, Append(pos, i), visited)
         IN  IF r.status # "ok" THEN r
             ELSE validateLoop(dev, routeList, parentPath, pos, i + 1, r.visited)

\* validateConfig(config, parentPath = '')
validateConfig(dev, routeList, parentPath) ==
    validateLoop(dev, routeList, parentPath, <<>>, 1, <<>>)


(***************************************************************************)
(* Route configurations handed to the functions.                           *)
(***************************************************************************)
Component == "Component"

PathValues == {None, Some(<<>>), Some(<<"a">>), Some(<<"/", "a">>)}
OutletValues == {None, Some(""), Some(PRIMARY_OUTLET), Some("aux")}
RedirectValues == {None, Some(""), Some("b")}
PathMatchValues == {None, Some("full"), Some("prefix")}
Optional(v) == {None, Some(v)}

\* Every combination of the properties validateNode and standardizeConfig
\* read, on a route without children or with an empty children array.
SingleRoutes ==
    [path : PathValues, matcher : Optional("matcher"), outlet : OutletValues,
     component : Optional(Component), redirectTo : RedirectValues,
     canActivate : Optional("guards"), children : Optional(<<>>),
     loadChildren : Optional("loadChildren"), pathMatch : PathMatchValues]

\* Routes that take part in trees.
PathA == [EmptyRoute EXCEPT !.path = Some(<<"a">>)]
PathEmpty == [EmptyRoute EXCEPT !.path = Some(<<>>)]
Matched ==
    [EmptyRoute EXCEPT !.matcher = Some("matcher"), !.component = Some(Component)]
Slashed ==
    [EmptyRoute EXCEPT !.path = Some(<<"/", "a">>), !.component = Some(Component)]
NamedOutlet == [PathA EXCEPT !.outlet = Some("aux")]
LazyNamedOutlet == [NamedOutlet EXCEPT !.loadChildren = Some("loadChildren")]

ParentRoutes == {PathA, PathEmpty, Matched, Slashed, NamedOutlet}
LeafRoutes ==
    ParentRoutes \cup {[PathA EXCEPT !.children = Some(<<>>)], LazyNamedOutlet}
\* Routes arrays as written by hand: an extra comma leaves an undefined
\* element, a nested literal an array.
LeafElements == LeafRoutes \cup {UndefinedRoute, ArrayRoute}

RECURSIVE Forests(_, _)
RECURSIVE Trees(_, _)

\* The route lists of exactly n elements in all, children included.
Forests(n, leaves) ==
    IF n = 0 THEN {<<>>}
    ELSE UNION {{<<t>> \o rest : t \in Trees(k, leaves),
                                 rest \in Forests(n - k, leaves)} : k \in 1..n}

\* The elements that make up exactly n elements with their descendants.
Trees(n, leaves) ==
    IF n = 1 THEN leaves
    ELSE {[r EXCEPT !.children = Some(f)] :
             r \in ParentRoutes, f \in Forests(n - 1, leaves)}

\* The Routes arrays handed in: one route with any combination of
\* properties, or a tree of at most MaxNodes elements built from leaves.
Configs(leaves) ==
    {<<r>> : r \in SingleRoutes}
        \cup UNION {Forests(n, leaves) : n \in 0..MaxNodes}

(***************************************************************************)
(* Calling the validator.                                                  *)
(***************************************************************************)
InitValidate ==
    /\ ngDevMode \in BOOLEAN
    /\ config \in Configs(LeafElements)
    /\ validation = None
    /\ heap = <<>> /\ roots = <<>> /\ outs = <<>> /\ again = None
    /\ routes = <<>> /\ outletName = "" /\ sortedConfig = None
    /\ snapshot = <<>> /\ injector = None

CallValidateConfig ==
    /\ validation = None
    /\ validation' = Some(validateConfig(ngDevMode, config, <<>>))
    /\ UNCHANGED <<ngDevMode, config, standardizeVars, outletVars, injectorVars>>

NextValidate == CallValidateConfig

SpecValidate == InitValidate /\ [][NextValidate]_vars


(***************************************************************************)
(* Properties of the validator.  The operators below describe a Routes     *)
(* tree independently of the traversal above.                              *)
(***************************************************************************)
Validated == IsSet(validation) /\ ngDevMode
Outcome == Val(validation)

RECURSIVE ElementAt(_, _)
\* The element of a route list at an index path.
ElementAt(routeList, pos) ==
    IF Len(pos) = 1 THEN routeList[pos[1]]
    ELSE ElementAt(Val(ChildrenOf(routeList[pos[1]])), Tail(pos))

RECURSIVE PreOrderFrom(_, _, _)
\* Index paths of the elements from index i on, an element before its
\* children, siblings in sequence order.
PreOrderFrom(routeList, pos, i) ==
    IF i > Len(routeList) THEN <<>>
    ELSE LET here == Append(pos, i)
             below == IF Truthy(ChildrenOf(routeList[i]))
                         THEN PreOrderFrom(Val(ChildrenOf(routeList[i])), here, 1)
                         ELSE <<>>
         IN  <<here>> \o below \o PreOrderFrom(routeList, pos, i + 1)

PreOrder == PreOrderFrom(config, <<>>, 1)
Element(k) == ElementAt(config, PreOrder[k])
Invalid == {k \in 1..Len(PreOrder) : NodeError(Element(k)) # "ok"}
FirstInvalid == CHOOSE k \in Invalid : \A j \in Invalid : k <= j
RouteElements == {k \in 1..Len(PreOrder) : IsRoute(Element(k))}

\* The path property as a string: '' when it is not set.
Segment(element) ==
    IF IsSet(PathOf(element)) THEN Val(PathOf(element)) ELSE <<>>

RECURSIVE Segments(_, _)
\* The path segments from the top of the tree down to the index path pos,
\* of which the first n indices are taken.
Segments(pos, n) ==
    IF n = 0 THEN <<>>
    ELSE Append(Segments(pos, n - 1), Segment(ElementAt(config, SubSeq(pos, 1, n))))

RECURSIVE Join(_)
\* segs.join('/')
Join(segs) ==
    IF Len(segs) = 0 THEN <<>>
    ELSE IF Len(segs) = 1 THEN segs[1]
    ELSE segs[1] \o Slash \o Join(Tail(segs))

RECURSIVE DropLeadingEmpty(_)
DropLeadingEmpty(segs) ==
    IF Len(segs) > 0 /\ segs[1] = <<>> THEN DropLeadingEmpty(Tail(segs)) ELSE segs

\* The traversal half of C9: the call returns normally exactly when no
\* element is invalid, and otherwise stops at the first invalid element in
\* pre-order, having visited the elements before it and nothing after it.
PreOrderTraversal ==
    Validated =>
        /\ (Outcome.status = "ok") <=> (Invalid = {})
        /\ Invalid = {} => Outcome.visited = PreOrder
        /\ Invalid # {} =>
            /\ Outcome.status = "error"
            /\ Outcome.visited = SubSeq(PreOrder, 1, FirstInvalid)
            /\ Outcome.message = NodeError(Element(FirstInvalid))

\* C9 as stated: in dev mode validateConfig returns normally iff every
\* element at every depth passes the node checks; otherwise it stops at the
\* first invalid element in pre-order, visits nothing after it, and the full
\* path of the error is the ancestors' paths and the element's own path
\* joined with '/'.
C9_JoinedFullPath ==
    /\ PreOrderTraversal
    /\ (Validated /\ Invalid # {} /\ IsRoute(Element(FirstInvalid))) =>
          Outcome.fullPath =
              Join(Segments(PreOrder[FirstInvalid], Len(PreOrder[FirstInvalid])))

\* C9 amended: as above, but the full path joins the paths with '/' only
\* after the leading empty or unset paths are dropped, and an undefined
\* element is reported under its parent's full path.
C9_FirstInvalidInPreOrder ==
    /\ PreOrderTraversal
    /\ (Validated /\ Invalid # {}) =>
          LET pos == PreOrder[FirstInvalid]
              n == IF IsUndefined(Element(FirstInvalid))
                      THEN Len(pos) - 1 ELSE Len(pos)
          IN  Outcome.fullPath = Join(DropLeadingEmpty(Segments(pos, n)))

\* A nested element was rejected under a parent whose path is empty, after
\* its parent was accepted and with an element left unvisited.
C9_Witness ==
    /\ Validated /\ Invalid # {}
    /\ Outcome.status = "error"
    /\ Len(PreOrder[FirstInvalid]) = 2
    /\ FirstInvalid < Len(PreOrder)
    /\ Len(Outcome.fullPath) > 0
    /\ Segments(PreOrder[FirstInvalid], 1) = <<(<<>>)>>


\* C6 as stated: in dev mode validateConfig fails for every route that sets
\* both a path and a matcher, the empty path '' included, and for every
\* route that sets neither.
C6_PathXorMatcher ==
    Validated =>
        \A k \in RouteElements :
            (IsSet(Element(k).path) <=> IsSet(Element(k).matcher))
                => Outcome.status = "error"

\* C7 as stated: in dev mode validateConfig fails for every route that sets
\* redirectTo, the empty string included, together with children (the empty
\* list included), loadChildren, component or canActivate.
C7_RedirectExcludes ==
    Validated =>
        \A k \in RouteElements :
            (/\ IsSet(Element(k).redirectTo)
             /\ \/ IsSet(Element(k).children)
                \/ IsSet(Element(k).loadChildren)
                \/ IsSet(Element(k).component)
                \/ IsSet(Element(k).canActivate))
                => Outcome.status = "error"

\* A route that redirects from the empty path and violates none of the
\* rules on component, children, loadChildren, canActivate and matcher.
BareEmptyPathRedirect(route) ==
    /\ IsRoute(route)
    /\ route.path = Some(<<>>) /\ IsSet(route.redirectTo)
    /\ ~IsSet(route.component) /\ ~IsSet(route.children)
    /\ ~IsSet(route.loadChildren) /\ ~IsSet(route.canActivate)
    /\ ~IsSet(route.matcher)

HasNamedOutlet(route) ==
    IsSet(route.outlet) /\ Val(route.outlet) \notin {"", PRIMARY_OUTLET}

\* C8: in dev mode a route with redirectTo set, path '' and no pathMatch
\* makes validateConfig fail, wherever it stands in the tree; the same route
\* alone with pathMatch 'full' added, no component, children, loadChildren,
\* canActivate or matcher, makes validateConfig return normally (the one
\* other rule such a route can violate is the one on named outlets, and it
\* fails exactly when it violates it).
C8_EmptyPathRedirectNeedsPathMatch ==
    Validated =>
        /\ \A k \in RouteElements :
              (/\ Element(k).path = Some(<<>>)
               /\ IsSet(Element(k).redirectTo)
               /\ ~IsSet(Element(k).pathMatch))
                  => Outcome.status = "error"
        /\ (/\ Len(config) = 1
            /\ BareEmptyPathRedirect(config[1])
            /\ config[1].pathMatch = Some("full"))
              => (Outcome.status = "ok" <=> ~HasNamedOutlet(config[1]))

\* validateConfig accepted {path: '', redirectTo: '', pathMatch: 'full'}.
C8_Witness ==
    /\ Validated /\ Len(config) = 1
    /\ BareEmptyPathRedirect(config[1])
    /\ config[1].redirectTo = Some("")
    /\ config[1].pathMatch = Some("full")
    /\ ~HasNamedOutlet(config[1])
    /\ Outcome.status = "ok"


(***************************************************************************)
(* standardizeConfig.  Route objects live in a heap (a sequence indexed by *)
(* address) and a children array holds addresses, so that a copy and a     *)
(* write to the argument are different things.                             *)
(***************************************************************************)
Allocated(h, refs) == [heap |-> h, refs |-> refs]

RECURSIVE standardizeConfig(_, _)
RECURSIVE mapStandardizeConfig(_, _, _, _)

\* r.children.map(standardizeConfig), from index i on; copies holds the
\* addresses returned so far.
mapStandardizeConfig(h, children, i, copies) ==
    IF i > Len(children) THEN Allocated(h, copies)
    ELSE LET done == standardizeConfig(h, children[i])
         IN  mapStandardizeConfig(done.heap, children, i + 1,
                                  Append(copies, done.refs[1]))

\* The copy grows its children array instead of replacing it.
spreadRoute_KeepsOldChildren(route, hasChildren, children) ==
    IF hasChildren
        THEN [route EXCEPT !.children = Some(Val(route.children) \o children)]
        ELSE route

\* children ? {...r, children} : {...r}
spreadRoute(route, hasChildren, children) ==
    IF hasChildren THEN [route EXCEPT !.children = Some(children)] ELSE route

\* The placeholder is given to every copy without a component.
addPlaceholder_ToEveryComponentless(c, hasChildren) ==
    IF ~Truthy(c.component)
        THEN [c EXCEPT !.component = Some(EmptyOutletComponent)]
        ELSE c

\* The placeholder is given on account of children only.
addPlaceholder_IgnoresLoadChildren(c, hasChildren) ==
    IF /\ ~Truthy(c.component)
       /\ hasChildren
       /\ TruthyStr(c.outlet) /\ Val(c.outlet) # PRIMARY_OUTLET
        THEN [c EXCEPT !.component = Some(EmptyOutletComponent)]
        ELSE c

\* The if statement that assigns c.component.
addPlaceholder(c, hasChildren) ==
    IF /\ ~Truthy(c.component)
       /\ (hasChildren \/ Truthy(c.loadChildren))
       /\ TruthyStr(c.outlet) /\ Val(c.outlet) # PRIMARY_OUTLET
        THEN [c EXCEPT !.component = Some(EmptyOutletComponent)]
        ELSE c

\* The properties are written to r itself and r is returned.
standardizeConfig_InPlace(h, r) ==
    LET hasChildren == Truthy(h[r].children)
        mapped == IF hasChildren
                     THEN mapStandardizeConfig(h, Val(h[r].children), 1, <<>>)
                     ELSE Allocated(h, <<>>)
        c == addPlaceholder(spreadRoute(h[r], hasChildren, mapped.refs),
                            hasChildren)
    IN  Allocated([mapped.heap EXCEPT ![r] = c], <<r>>)

\* standardizeConfig(r) for the Route object at address r: the heap after
\* the call and the address returned.
standardizeConfig(h, r) ==
    LET hasChildren == Truthy(h[r].children)
        mapped == IF hasChildren
                     THEN mapStandardizeConfig(h, Val(h[r].children), 1, <<>>)
                     ELSE Allocated(h, <<>>)
        c == addPlaceholder(spreadRoute(h[r], hasChildren, mapped.refs),
                            hasChildren)
    IN  Allocated(Append(mapped.heap, c), <<Len(mapped.heap) + 1>>)

RECURSIVE allocRoutes(_, _, _, _)
\* The Route objects of a Routes literal laid out in the heap, children
\* before their parent; refs holds the addresses of the elements so far.
allocRoutes(h, routeList, i, refs) ==
    IF i > Len(routeList) THEN Allocated(h, refs)
    ELSE LET below == IF Truthy(routeList[i].children)
                         THEN allocRoutes(h, Val(routeList[i].children), 1, <<>>)
                         ELSE Allocated(h, <<>>)
             object == IF Truthy(routeList[i].children)
                          THEN [routeList[i] EXCEPT !.children = Some(below.refs)]
                          ELSE routeList[i]
         IN  allocRoutes(Append(below.heap, object), routeList, i + 1,
                         Append(refs, Len(below.heap) + 1))

RECURSIVE routeAt(_, _)
\* The Route tree read from address r, children followed.
routeAt(h, r) ==
    IF Truthy(h[r].children)
        THEN [h[r] EXCEPT !.children =
                 Some([i \in 1..Len(Val(h[r].children)) |->
                          routeAt(h, Val(h[r].children)[i])])]
        ELSE h[r]

routesAt(h, refs) == [i \in 1..Len(refs) |-> routeAt(h, refs[i])]

InitStandardize ==
    /\ \E c \in Configs(LeafRoutes) :
          /\ heap = allocRoutes(<<>>, c, 1, <<>>).heap
          /\ roots = allocRoutes(<<>>, c, 1, <<>>).refs
    /\ outs = <<>> /\ again = None
    /\ ngDevMode = TRUE /\ config = <<>> /\ validation = None
    /\ routes = <<>> /\ outletName = "" /\ sortedConfig = None
    /\ snapshot = <<>> /\ injector = None

\* standardizeConfig on the next element of the configuration.
CallStandardizeConfig ==
    /\ Len(outs) < Len(roots)
    /\ LET done == standardizeConfig(heap, roots[Len(outs) + 1])
       IN  /\ heap' = done.heap
           /\ outs' = Append(outs, done.refs[1])
    /\ UNCHANGED <<roots, again, validateVars, outletVars, injectorVars>>

\* standardizeConfig on a Route object it returned before.
CallStandardizeConfigAgain ==
    /\ Len(outs) = Len(roots) /\ again = None
    /\ \E k \in 1..Len(outs) :
          LET done == standardizeConfig(heap, outs[k])
          IN  /\ heap' = done.heap
              /\ again' = Some([of |-> outs[k], returned |-> done.refs[1]])
    /\ UNCHANGED <<roots, outs, validateVars, outletVars, injectorVars>>

NextStandardize == CallStandardizeConfig \/ CallStandardizeConfigAgain

SpecStandardize == InitStandardize /\ [][NextStandardize]_vars


(***************************************************************************)
(* Properties of standardizeConfig.                                        *)
(***************************************************************************)
\* The call made by the step from the current state: its argument and the
\* address it returned.
CalledWith == IF outs' # outs THEN roots[Len(outs')] ELSE Val(again').of
Returned == IF outs' # outs THEN outs'[Len(outs')] ELSE Val(again').returned

RECURSIVE Reachable(_, _)
\* The addresses of the Route object at r and of its descendants.
Reachable(h, r) ==
    {r} \cup IF Truthy(h[r].children)
                THEN UNION {Reachable(h, Val(h[r].children)[i]) :
                               i \in 1..Len(Val(h[r].children))}
                ELSE {}

\* The condition under which the copy gets the placeholder, with the outlet
\* tested as the code tests it (truthy) or as presence only.
NeedsPlaceholder(route) ==
    /\ ~IsSet(route.component)
    /\ (IsSet(route.children) \/ IsSet(route.loadChildren))
    /\ IsSet(route.outlet) /\ Val(route.outlet) \notin {"", PRIMARY_OUTLET}

NeedsPlaceholderWhenOutletSet(route) ==
    /\ ~IsSet(route.component)
    /\ (IsSet(route.children) \/ IsSet(route.loadChildren))
    /\ IsSet(route.outlet) /\ Val(route.outlet) # PRIMARY_OUTLET

SameOtherFields(in, out) ==
    /\ out.path = in.path /\ out.matcher = in.matcher
    /\ out.outlet = in.outlet /\ out.redirectTo = in.redirectTo
    /\ out.canActivate = in.canActivate
    /\ out.loadChildren = in.loadChildren /\ out.pathMatch = in.pathMatch
    /\ IsSet(out.children) = IsSet(in.children)
    /\ IsSet(in.children) => Len(Val(out.children)) = Len(Val(in.children))

RECURSIVE Standardized(_, _)
\* out is in with the placeholder added where NeedsPlaceholder holds, at
\* every depth.
Standardized(in, out) ==
    /\ SameOtherFields(in, out)
    /\ out.component = IF NeedsPlaceholder(in)
                          THEN Some(EmptyOutletComponent) ELSE in.component
    /\ IsSet(in.children) =>
          \A i \in 1..Len(Val(in.children)) :
              Standardized(Val(in.children)[i], Val(out.children)[i])

RECURSIVE StandardizedWhenOutletSet(_, _)
StandardizedWhenOutletSet(in, out) ==
    /\ SameOtherFields(in, out)
    /\ out.component = IF NeedsPlaceholderWhenOutletSet(in)
                          THEN Some(EmptyOutletComponent) ELSE in.component
    /\ IsSet(in.children) =>
          \A i \in 1..Len(Val(in.children)) :
              StandardizedWhenOutletSet(Val(in.children)[i], Val(out.children)[i])

\* C3: standardizeConfig(standardizeConfig(r)) equals standardizeConfig(r),
\* field by field at every depth.
C3_Idempotent ==
    IsSet(again) =>
        routeAt(heap, Val(again).returned) = routeAt(heap, Val(again).of)

\* The second call was given a copy that carries placeholders at two depths.
C3_Witness ==
    /\ IsSet(again)
    /\ heap[Val(again).of].component = Some(EmptyOutletComponent)
    /\ IsSet(heap[Val(again).of].children)
    /\ \E i \in 1..Len(Val(heap[Val(again).of].children)) :
          heap[Val(heap[Val(again).of].children)[i]].component
              = Some(EmptyOutletComponent)
    /\ Val(again).returned # Val(again).of

\* C4 as stated: at every depth the copy's component is the placeholder
\* exactly when the input route has no component, has children or
\* loadChildren, and has an outlet that is set and is not 'primary';
\* otherwise the component, like every other field but children, is the
\* input's.
C4_PlaceholderWhenOutletSet ==
    \A k \in 1..Len(outs) :
        StandardizedWhenOutletSet(routeAt(heap, roots[k]), routeAt(heap, outs[k]))

\* C4 amended: the same with 'an outlet that is set, is not the empty string
\* and is not "primary"'.
C4_PlaceholderWhenOutletNamed ==
    /\ \A k \in 1..Len(outs) :
          Standardized(routeAt(heap, roots[k]), routeAt(heap, outs[k]))
    /\ IsSet(again) =>
          Standardized(routeAt(heap, Val(again).of),
                       routeAt(heap, Val(again).returned))

\* A copied route got the placeholder on account of its children, one of
\* its children on account of loadChildren, and another child, which has no
\* outlet, was left without a component.
C4_Witness ==
    /\ Len(outs) >= 1
    /\ ~IsSet(heap[roots[1]].component)
    /\ heap[outs[1]].component = Some(EmptyOutletComponent)
    /\ IsSet(heap[outs[1]].children)
    /\ Len(Val(heap[outs[1]].children)) = 2
    /\ \E i, j \in 1..2 :
          LET in == Val(heap[roots[1]].children)
              out == Val(heap[outs[1]].children)
          IN  /\ IsSet(heap[in[i]].loadChildren)
              /\ ~IsSet(heap[in[i]].component)
              /\ heap[out[i]].component = Some(EmptyOutletComponent)
              /\ ~IsSet(heap[in[j]].outlet)
              /\ ~IsSet(heap[out[j]].component)

\* C5: a call of standardizeConfig leaves every Route object that existed
\* before it as it was, children arrays included, and returns a Route
\* object that did not exist before, as is each of its descendants.
C5_InputUntouched ==
    [][/\ Len(heap') >= Len(heap)
       /\ \A a \in 1..Len(heap) : heap'[a] = heap[a]
       /\ (outs' # outs \/ again' # again) =>
             /\ \A a \in Reachable(heap', Returned) : a > Len(heap)
             /\ Reachable(heap', Returned)
                    \cap Reachable(heap, CalledWith) = {}]_vars

\* A route with children and a named outlet was copied: the copy carries the
\* placeholder and the argument still has no component.
C5_Witness ==
    /\ Len(outs) >= 1
    /\ heap[outs[1]].component = Some(EmptyOutletComponent)
    /\ ~IsSet(heap[roots[1]].component)
    /\ IsSet(heap[roots[1]].children)
    /\ Len(Val(heap[roots[1]].children)) >= 1
    /\ outs[1] # roots[1]

\* C10: when validateConfig accepts a configuration in dev mode, it accepts
\* the configuration made of standardizeConfig's copies of its elements.
C10_StandardizedStaysValid ==
    Len(outs) = Len(roots) =>
        (validateConfig(TRUE, routesAt(heap, roots), <<>>).status = "ok"
            => validateConfig(TRUE, routesAt(heap, outs), <<>>).status = "ok")

\* An accepted configuration whose copy carries the placeholder on a route
\* that also sets redirectTo.
C10_Witness ==
    /\ Len(outs) = Len(roots) /\ Len(roots) >= 1
    /\ validateConfig(TRUE, routesAt(heap, roots), <<>>).status = "ok"
    /\ validateConfig(TRUE, routesAt(heap, outs), <<>>).status = "ok"
    /\ \E a \in Reachable(heap, outs[1]) :
          /\ heap[a].component = Some(EmptyOutletComponent)
          /\ IsSet(heap[a].redirectTo)


(***************************************************************************)
(* getOutlet and sortByMatchingOutlets.                                    *)
(***************************************************************************)
\* route.outlet ?? PRIMARY_OUTLET: the empty outlet is kept.
getOutlet_Nullish(route) ==
    IF IsSet(route.outlet) THEN Val(route.outlet) ELSE PRIMARY_OUTLET

\* route.outlet || PRIMARY_OUTLET
getOutlet(route) ==
    IF TruthyStr(route.outlet) THEN Val(route.outlet) ELSE PRIMARY_OUTLET

\* routes.filter(...), then push(...routes.filter(...)) onto the result.
sortByMatchingOutlets(routeList, name) ==
    LET matching == SelectSeq(routeList, LAMBDA r : getOutlet(r) = name)
        others == SelectSeq(routeList, LAMBDA r : getOutlet(r) # name)
    IN  matching \o others

SortOutlets == OutletValues \cup {Some("left")}
OutletNames == {"", PRIMARY_OUTLET, "aux"}

\* The i-th Route object of a list: told from the others by its path.
RouteNumbered(i, outlet) ==
    [EmptyRoute EXCEPT !.path = Some([k \in 1..i |-> "a"]), !.outlet = outlet,
                       !.component = Some(Component)]

InitOutlets ==
    /\ \E n \in 0..MaxRoutes : \E o \in [1..n -> SortOutlets] :
          routes = [i \in 1..n |-> RouteNumbered(i, o[i])]
    /\ outletName \in OutletNames
    /\ sortedConfig = None
    /\ ngDevMode = TRUE /\ config = <<>> /\ validation = None
    /\ heap = <<>> /\ roots = <<>> /\ outs = <<>> /\ again = None
    /\ snapshot = <<>> /\ injector = None

CallSortByMatchingOutlets ==
    /\ sortedConfig = None
    /\ sortedConfig' = Some(sortByMatchingOutlets(routes, outletName))
    /\ UNCHANGED <<routes, outletName, validateVars, standardizeVars, injectorVars>>

NextOutlets == CallSortByMatchingOutlets

SpecOutlets == InitOutlets /\ [][NextOutlets]_vars

\* The outlet a route is shown in: an unset or empty outlet counts as
\* "primary".
EffectiveOutlet(route) ==
    IF route.outlet \in {None, Some("")} THEN PRIMARY_OUTLET ELSE Val(route.outlet)

Matches(route) == EffectiveOutlet(route) = outletName
Occurrences(list, x) == Cardinality({i \in 1..Len(list) : list[i] = x})
InputIndex(route) == CHOOSE i \in 1..Len(routes) : routes[i] = route

\* C2: the result of sortByMatchingOutlets is a permutation of the input in
\* which every route whose outlet equals the name precedes every other
\* route, and each of the two groups keeps its order from the input.
C2_StablePartition ==
    IsSet(sortedConfig) =>
        LET sorted == Val(sortedConfig)
        IN  /\ Len(sorted) = Len(routes)
            /\ \A i \in 1..Len(routes) :
                  Occurrences(sorted, routes[i]) = Occurrences(routes, routes[i])
            /\ \A i, j \in 1..Len(sorted) :
                  (i < j /\ Matches(sorted[j])) => Matches(sorted[i])
            /\ \A i, j \in 1..Len(sorted) :
                  (i < j /\ Matches(sorted[i]) = Matches(sorted[j]))
                      => InputIndex(sorted[i]) < InputIndex(sorted[j])

\* Two routes of the primary outlet, one with outlet unset and one with
\* outlet '', were moved in front of the two other routes that preceded them.
C2_Witness ==
    /\ IsSet(sortedConfig) /\ outletName = PRIMARY_OUTLET
    /\ Len(routes) = 4
    /\ ~Matches(routes[1]) /\ ~Matches(routes[3])
    /\ routes[2].outlet = Some("") /\ routes[4].outlet = None
    /\ routes[1].outlet # routes[3].outlet
    /\ Val(sortedConfig) = <<routes[2], routes[4], routes[1], routes[3]>>

(***************************************************************************)
(* getClosestRouteInjector.  The snapshot and its ancestors are a          *)
(* sequence: snapshot[1] is the argument and snapshot[s + 1] is            *)
(* snapshot[s].parent; the empty sequence is an absent snapshot.           *)
(***************************************************************************)
RECURSIVE closestAbove(_, _)
\* The for loop, at snapshot s of the chain.
closestAbove(chain, s) ==
    IF s > Len(chain) THEN None
    ELSE LET route == chain[s].routeConfig
         IN  IF IsSet(route) /\ IsSet(Val(route)._loadedInjector)
                 THEN Val(route)._loadedInjector
             ELSE IF IsSet(route) /\ IsSet(Val(route)._injector)
                 THEN Val(route)._injector
             ELSE closestAbove(chain, s + 1)

\* The search starts at the snapshot itself instead of its parent.
getClosestRouteInjector_FromSelf(chain) ==
    IF Len(chain) = 0 THEN None
    ELSE IF /\ IsSet(chain[1].routeConfig)
            /\ IsSet(Val(chain[1].routeConfig)._injector)
        THEN Val(chain[1].routeConfig)._injector
    ELSE closestAbove(chain, 1)

\* getClosestRouteInjector(snapshot): an injector, or None for null.
getClosestRouteInjector(chain) ==
    IF Len(chain) = 0 THEN None
    ELSE IF /\ IsSet(chain[1].routeConfig)
            /\ IsSet(Val(chain[1].routeConfig)._injector)
        THEN Val(chain[1].routeConfig)._injector
    ELSE closestAbove(chain, 2)

\* What a snapshot's route carries: no route at all (routeConfig is null),
\* or a route with neither, either or both injectors.
Carried == {"null", "none", "static", "lazy", "both"}

\* The snapshot s levels up whose route carries the injectors named; an
\* injector is known by the route it is stored on and by its kind.
SnapshotCarrying(s, carried) ==
    [routeConfig |->
        IF carried = "null" THEN None
        ELSE Some([_injector |->
                       IF carried \in {"static", "both"}
                           THEN Some(<<s, "_injector">>) ELSE None,
                   _loadedInjector |->
                       IF carried \in {"lazy", "both"}
                           THEN Some(<<s, "_loadedInjector">>) ELSE None])]

InitInjector ==
    /\ \E n \in 0..(MaxChain + 1) : \E c \in [1..n -> Carried] :
          snapshot = [s \in 1..n |-> SnapshotCarrying(s, c[s])]
    /\ injector = None
    /\ ngDevMode = TRUE /\ config = <<>> /\ validation = None
    /\ heap = <<>> /\ roots = <<>> /\ outs = <<>> /\ again = None
    /\ routes = <<>> /\ outletName = "" /\ sortedConfig = None

CallGetClosestRouteInjector ==
    /\ injector = None
    /\ injector' = Some(getClosestRouteInjector(snapshot))
    /\ UNCHANGED <<snapshot, validateVars, standardizeVars, outletVars>>

NextInjector == CallGetClosestRouteInjector

SpecInjector == InitInjector /\ [][NextInjector]_vars

\* The injectors stored on the route of snapshot s, read independently of
\* the search above.
StaticOf(s) ==
    IF IsSet(snapshot[s].routeConfig)
        THEN Val(snapshot[s].routeConfig)._injector ELSE None
LazyOf(s) ==
    IF IsSet(snapshot[s].routeConfig)
        THEN Val(snapshot[s].routeConfig)._loadedInjector ELSE None
Carriers == {s \in 2..Len(snapshot) : IsSet(StaticOf(s)) \/ IsSet(LazyOf(s))}
Nearest == CHOOSE s \in Carriers : \A t \in Carriers : s <= t

\* C1: getClosestRouteInjector returns the static injector of the
\* snapshot's own route if there is one; otherwise the injector of the
\* nearest proper ancestor whose route carries one, the lazy-loaded one
\* before the static one; and null when the snapshot is absent or no
\* ancestor carries an injector.
C1_ClosestInjector ==
    IsSet(injector) =>
        Val(injector) =
            IF Len(snapshot) = 0 THEN None
            ELSE IF IsSet(StaticOf(1)) THEN StaticOf(1)
            ELSE IF Carriers = {} THEN None
            ELSE IF IsSet(LazyOf(Nearest)) THEN LazyOf(Nearest)
            ELSE StaticOf(Nearest)

\* The snapshot's own route carries only a lazy-loaded injector, its parent
\* carries none, and the grandparent's lazy-loaded injector was returned
\* although the grandparent has a static one too.
C1_Witness ==
    /\ IsSet(injector) /\ Len(snapshot) >= 3
    /\ IsSet(LazyOf(1)) /\ ~IsSet(StaticOf(1))
    /\ 2 \notin Carriers
    /\ IsSet(StaticOf(3)) /\ IsSet(LazyOf(3))
    /\ Val(injector) = LazyOf(3)


(***************************************************************************)
(* The functions together: any of them may be called on its arguments.     *)
(***************************************************************************)
Init == InitValidate \/ InitStandardize \/ InitOutlets \/ InitInjector

Next == NextValidate \/ NextStandardize \/ NextOutlets \/ NextInjector

Spec == Init /\ [][Next]_vars


====
